---- MODULE Spec2Model ----
(***************************************************************************)
(* Model of src/index.js: calculateDistance (Haversine distance) and       *)
(* getRecommendedEvents (weighted multi-factor ranking of events).          *)
(*                                                                         *)
(* JavaScript values are tagged records; the tag t is what typeof and the  *)
(* truthiness tests of the code look at.  Each tag has its own payload     *)
(* field, so that values of different shapes can live in one set.          *)
(*                                                                         *)
(* Units.  Coordinates are whole degrees.  Distances are whole kilometres. *)
(* Scores, popularity and the weights are fixed-point numbers with         *)
(* Unit = 1.0.  Counters and limit are plain integers.                     *)
(***************************************************************************)
EXTENDS Integers, Sequences, FiniteSets, TLC

\* ------------------------------------------------------------------ values

Undefined == [t |-> "undefined"]
Num(n) == [t |-> "number", k |-> "finite", n |-> n]
NaN == [t |-> "number", k |-> "NaN", n |-> 0]
Infinity == [t |-> "number", k |-> "Infinity", n |-> 0]
Str(s) == [t |-> "string", s |-> s]
Arr(s) == [t |-> "array", a |-> s]
Obj(r) == [t |-> "object", f |-> r]

\* o.name for an object o; a missing property reads as undefined (reading a
\* property of undefined itself is a TypeError, which each caller models)
Get(o, name) ==
  IF o.t = "object" /\ name \in DOMAIN o.f THEN o.f[name] ELSE Undefined

\* typeof v, as far as the code distinguishes it
TypeOf(v) == IF v.t = "array" THEN "object" ELSE v.t

\* ToBoolean(v)
Truthy(v) ==
  CASE v.t = "undefined" -> FALSE
    [] v.t = "number" -> (v.k = "Infinity") \/ (v.k = "finite" /\ v.n # 0)
    [] v.t = "string" -> v.s # ""
    [] OTHER -> TRUE

IsFinite(v) == v.t = "number" /\ v.k = "finite"

Min(a, b) == IF a < b THEN a ELSE b
Max(a, b) == IF a > b THEN a ELSE b
Abs(a) == IF a < 0 THEN -a ELSE a

\* what a call produces: a returned value or a thrown TypeError
Return(v) == [threw |-> FALSE, value |-> v]
TypeError == [threw |-> TRUE, value |-> Undefined]

\* fixed-point one
Unit == 12 * 100
\* angles returned by atan2 are in 1/AngleScale radians
AngleScale == 100 * 100

\* -------------------------------------------------------- calculateDistance

RADIUS == 6371

\* sin(x/2)^2 for x a multiple of 90 degrees, in halves (0, 1/2, 1)
SinHalfSquared(deg) ==
  LET m == Abs(deg) % 360
  IN  CASE m = 0 -> 0 [] m = 90 -> 1 [] m = 180 -> 2 [] m = 270 -> 1

\* cos(x) for x a multiple of 90 degrees
Cos(deg) ==
  LET m == Abs(deg) % 360
  IN  CASE m = 0 -> 1 [] m = 90 -> 0 [] m = 180 -> -1 [] m = 270 -> 0

\* the Haversine term a, in halves
HaversineA(lat1, lng1, lat2, lng2) ==
  LET differenceInLatitude == lat2 - lat1
      differenceInLongitude == lng2 - lng1
  IN  SinHalfSquared(differenceInLatitude)
        + Cos(lat1) * Cos(lat2) * SinHalfSquared(differenceInLongitude)

\* Math.atan2(Math.sqrt(a), Math.sqrt(1 - a)) for a in halves
Atan2Sqrt(a) == CASE a = 0 -> 0 [] a = 1 -> 7854 [] a = 2 -> 15708

\* the typeof guard of calculateDistance: some coordinate is not a number
NotANumberGuard(point1, point2) ==
  \/ TypeOf(Get(point1, "lat")) # "number"
  \/ TypeOf(Get(point1, "lng")) # "number"
  \/ TypeOf(Get(point2, "lat")) # "number"
  \/ TypeOf(Get(point2, "lng")) # "number"

calculateDistance(point1, point2) ==
  IF point1.t = "undefined" \/ point2.t = "undefined" THEN TypeError
  ELSE IF NotANumberGuard(point1, point2) THEN Return(Num(0))
  ELSE LET lat1 == Get(point1, "lat")
           lng1 == Get(point1, "lng")
           lat2 == Get(point2, "lat")
           lng2 == Get(point2, "lng")
       IN  \* NaN and the infinities pass the typeof guard and make sin and
           \* cos, and so the result, NaN
           IF \E c \in {lat1, lng1, lat2, lng2} : c.k # "finite"
           THEN Return(NaN)
           ELSE LET a == HaversineA(lat1.n, lng1.n, lat2.n, lng2.n)
                    c == 2 * Atan2Sqrt(a)
                    distance == (RADIUS * c) \div AngleScale
                IN  Return(Num(distance))

\* ---------------------------------------------------- getRecommendedEvents

WEIGHAGE_1 == (35 * Unit) \div 100
WEIGHAGE_2 == (25 * Unit) \div 100
WEIGHAGE_3 == (20 * Unit) \div 100

\* the default value of the parameter limit
DefaultLimit == 5

Null == [t |-> "null"]

\* number arithmetic on scores: a NaN operand makes the result NaN
NumAdd(x, y) == IF IsFinite(x) /\ IsFinite(y) THEN Num(x.n + y.n) ELSE NaN
\* (a / b) * w for counters a, b > 0 and a fixed-point weight w
RatioTimes(a, b, w) == (((a * Unit) \div b) * w) \div Unit
\* x * w for fixed-point x and w
Times(x, w) == (x * w) \div Unit

\* Math.exp(-x) for fixed-point x >= 0: e^-1 per whole unit, the Taylor
\* polynomial of e^-x for the fraction that is left
ExpFraction(x) ==
  LET t2 == ((x * x) \div Unit) \div 2
      t3 == ((t2 * x) \div Unit) \div 3
      t4 == ((t3 * x) \div Unit) \div 4
      t5 == ((t4 * x) \div Unit) \div 5
  IN  Unit - x + t2 - t3 + t4 - t5

RECURSIVE ExpNegFrom(_, _)
ExpNegFrom(acc, x) ==
  IF acc = 0 THEN 0
  ELSE IF x >= Unit THEN ExpNegFrom((acc * 441) \div Unit, x - Unit)
  ELSE (acc * ExpFraction(x)) \div Unit

MathExpNeg(x) == ExpNegFrom(Unit, x)

\* faulty variant: the set is built from a property the user does not have
attendedEventsSetMut(user) == {}

\* new Set(user.attendedEvents || [])
attendedEventsSet(user) ==
  LET attended == Get(user, "attendedEvents")
  IN  IF Truthy(attended) THEN {attended.a[i] : i \in DOMAIN attended.a} ELSE {}

\* the body of user.attendedEvents.forEach, from the i-th attended id on;
\* acc holds the two counters and whether a TypeError was thrown
RECURSIVE ForEachAttended(_, _, _, _, _)
ForEachAttended(attended, eventSimilarity, eventId, i, acc) ==
  IF i > Len(attended) \/ acc.threw THEN acc
  ELSE IF eventSimilarity.t = "undefined" THEN [acc EXCEPT !.threw = TRUE]
  ELSE LET entry == Get(eventSimilarity, attended[i])
       IN  IF ~Truthy(entry)
           THEN ForEachAttended(attended, eventSimilarity, eventId, i + 1, acc)
           ELSE IF entry.t # "array"
           THEN [acc EXCEPT !.threw = TRUE]  \* entry.includes is not a function
           ELSE LET isDirectlySimilar ==
                      \E j \in DOMAIN entry.a : entry.a[j] = eventId
                IN  ForEachAttended(attended, eventSimilarity, eventId, i + 1,
                      [acc EXCEPT
                         !.similarityScore = IF isDirectlySimilar THEN @ + 1 ELSE @,
                         !.maxSimilarityScore = @ + 1])

\* faulty variant: normalises by user.attendedEvents.length
SimilarityFactorMut(user, event, eventSimilarity) ==
  LET attended == Get(user, "attendedEvents")
  IN  IF Truthy(attended) /\ Len(attended.a) > 0
      THEN LET acc == ForEachAttended(attended.a, eventSimilarity,
                        Get(event, "id"), 1,
                        [threw |-> FALSE, similarityScore |-> 0,
                         maxSimilarityScore |-> 0])
           IN  IF acc.threw THEN TypeError
               ELSE Return(Num(RatioTimes(acc.similarityScore,
                                          Len(attended.a), WEIGHAGE_1)))
      ELSE Return(Num(0))

\* Factor 1: similarity to attended events
SimilarityFactor(user, event, eventSimilarity) ==
  LET attended == Get(user, "attendedEvents")
  IN  IF Truthy(attended) /\ Len(attended.a) > 0
      THEN LET acc == ForEachAttended(attended.a, eventSimilarity,
                        Get(event, "id"), 1,
                        [threw |-> FALSE, similarityScore |-> 0,
                         maxSimilarityScore |-> 0])
           IN  IF acc.threw THEN TypeError
               ELSE IF acc.maxSimilarityScore > 0
               THEN Return(Num(RatioTimes(acc.similarityScore,
                                          acc.maxSimilarityScore, WEIGHAGE_1)))
               ELSE Return(Num(0))
      ELSE Return(Num(0))

\* Factor 2: user preferences match
PreferenceFactor(user, event) ==
  LET preferences == Get(user, "preferences")
      categories == Get(event, "categories")
  IN  IF Truthy(preferences) /\ Len(preferences.a) > 0 /\ Truthy(categories)
      THEN IF categories.t # "array"
           THEN TypeError  \* event.categories.filter is not a function
           ELSE LET preferenceMatchCount ==
                      Cardinality({i \in DOMAIN categories.a :
                         \E j \in DOMAIN preferences.a :
                            preferences.a[j] = categories.a[i]})
                    maxPossibleMatches ==
                      Min(Len(preferences.a), Len(categories.a))
                IN  IF maxPossibleMatches > 0
                    THEN Return(Num(RatioTimes(preferenceMatchCount,
                                               maxPossibleMatches, WEIGHAGE_2)))
                    ELSE Return(Num(0))
      ELSE Return(Num(0))

\* the objects handed to calculateDistance
MapLocation(location) ==
  Obj([latitude |-> Get(location, "lat"), longitude |-> Get(location, "lng")])

\* Factor 3: geographic proximity
ProximityFactor(user, event) ==
  LET userLoc == Get(user, "location")
      eventLoc == Get(event, "location")
  IN  IF Truthy(userLoc) /\ Truthy(eventLoc)
      THEN LET userLocation == MapLocation(userLoc)
               eventLocation == MapLocation(eventLoc)
               distance == calculateDistance(userLocation, eventLocation).value
           IN  IF IsFinite(distance)
               THEN LET proximityScore ==
                          MathExpNeg((distance.n * Unit) \div 100)
                    IN  Return(Num(Times(proximityScore, WEIGHAGE_3)))
               ELSE Return(NaN)
      ELSE Return(Num(0))

\* Factor 4: event popularity
PopularityFactor(event) ==
  LET popularity == Get(event, "popularity")
  IN  IF popularity.t # "undefined"
      THEN IF IsFinite(popularity)
           THEN Return(Num(Times(popularity.n, WEIGHAGE_3)))
           ELSE Return(NaN)
      ELSE Return(Num(0))

\* faulty variant: event.score = score
EventAfterCallbackMut(event, score) ==
  Obj([x \in DOMAIN event.f \cup {"score"} |->
         IF x = "score" THEN score ELSE event.f[x]])

\* the event object once its score is known: the callback returns a new
\* object { event, score } and assigns nothing to the event
EventAfterCallback(event, score) == event

\* the callback of events.map for the event at position idx; item is what the
\* callback returns, event is the event object when the callback is done
MapCallback(user, event, eventSimilarity, idx) ==
  IF Get(event, "id") \in attendedEventsSet(user)
  THEN [threw |-> FALSE, item |-> Null, event |-> event]
  ELSE LET f1 == SimilarityFactor(user, event, eventSimilarity)
           f2 == PreferenceFactor(user, event)
           f3 == ProximityFactor(user, event)
           f4 == PopularityFactor(event)
       IN  IF f1.threw \/ f2.threw
           THEN [threw |-> TRUE, item |-> Null, event |-> event]
           ELSE LET score == NumAdd(NumAdd(NumAdd(f1.value, f2.value),
                                           f3.value), f4.value)
                IN  [threw |-> FALSE,
                     item |-> [t |-> "scored", event |-> idx, score |-> score],
                     event |-> EventAfterCallback(event, score)]

\* faulty variant: (a, b) => a.score - b.score
CompareFnMut(a, b) ==
  IF IsFinite(a.score) /\ IsFinite(b.score) THEN a.score.n - b.score.n ELSE 0

\* (a, b) => b.score - a.score ; a NaN result orders nothing
CompareFn(a, b) ==
  IF IsFinite(a.score) /\ IsFinite(b.score) THEN b.score.n - a.score.n ELSE 0

\* x put into a sorted sequence behind every element that does not have to
\* come after it (Array.prototype.sort is stable)
Insert(sorted, x) ==
  LET k == Cardinality({i \in DOMAIN sorted :
                          \A j \in 1..i : CompareFn(sorted[j], x) <= 0})
  IN  SubSeq(sorted, 1, k) \o <<x>> \o SubSeq(sorted, k + 1, Len(sorted))

RECURSIVE SortByScore(_)
SortByScore(s) ==
  IF s = <<>> THEN <<>>
  ELSE Insert(SortByScore(SubSeq(s, 1, Len(s) - 1)), s[Len(s)])

\* .filter((item) => item !== null)
RECURSIVE FilterNotNull(_)
FilterNotNull(s) ==
  IF s = <<>> THEN <<>>
  ELSE IF s[1].t = "null" THEN FilterNotNull(Tail(s))
  ELSE <<s[1]>> \o FilterNotNull(Tail(s))

\* faulty variant: s.slice(0, end + 1)
SliceMut(s, end) ==
  LET final == IF end + 1 < 0 THEN Max(Len(s) + end + 1, 0)
               ELSE Min(end + 1, Len(s))
  IN  SubSeq(s, 1, final)

\* s.slice(0, end) for an integer end
Slice(s, end) ==
  LET final == IF end < 0 THEN Max(Len(s) + end, 0) ELSE Min(end, Len(s))
  IN  SubSeq(s, 1, final)

\* the value the parameter limit has in the body
EffectiveLimit(limit) == IF limit.t = "undefined" THEN DefaultLimit ELSE limit.n

\* the call: ret is what it returns or throws, events the events array and
\* its objects when the call is over, eventScores the local array of that
\* name when the call is over
getRecommendedEvents(user, events, eventSimilarity, limit) ==
  IF ~Truthy(events) \/ Len(events.a) = 0
  THEN [ret |-> Return(Arr(<<>>)), events |-> events, eventScores |-> <<>>]
  ELSE IF \E i \in DOMAIN events.a : events.a[i].t = "undefined"
  THEN \* event.id of undefined
       [ret |-> TypeError, events |-> events, eventScores |-> <<>>]
  ELSE IF user.t = "undefined"
  THEN \* user.attendedEvents of undefined
       [ret |-> TypeError, events |-> events, eventScores |-> <<>>]
  ELSE LET mapped == [i \in DOMAIN events.a |->
                        MapCallback(user, events.a[i], eventSimilarity, i)]
           after == Arr([i \in DOMAIN events.a |-> mapped[i].event])
       IN  IF \E i \in DOMAIN mapped : mapped[i].threw
           THEN [ret |-> TypeError, events |-> after, eventScores |-> <<>>]
           ELSE LET eventScores ==
                      FilterNotNull([i \in DOMAIN mapped |-> mapped[i].item])
                    sorted == SortByScore(eventScores)
                    top == Slice(sorted, EffectiveLimit(limit))
                IN  [ret |-> Return(Arr([i \in DOMAIN top |-> top[i].event])),
                     events |-> after, eventScores |-> sorted]

\* ------------------------------------------------------------------- state

VARIABLES
  user, events, eventSimilarity, limit,  \* the arguments of getRecommendedEvents
  point1, point2,                        \* the arguments of calculateDistance
  pc,          \* per function: "idle" (not called), "ready" or "done"
  result,      \* what getRecommendedEvents returned or threw; a returned
               \* array holds the positions in events of the objects it holds
  eventScores, \* the local eventScores of getRecommendedEvents at its end
  distance     \* what calculateDistance returned or threw

vars == <<user, events, eventSimilarity, limit, point1, point2, pc, result,
          eventScores, distance>>

\* ------------------------------------------------------------------ inputs

MaxEvents == 3
MaxEventsSim == 2
MaxEventsLimit == 6
MaxEventsScore == 2
MaxEventsShape == 2
MaxAttended == 3
MaxLimit == 7

Ids == {"e1", "e2", "e3"}
Categories == {"music", "sports"}

SeqsUpTo(S, n) == UNION {[1..k -> S] : k \in 0..n}
Range(s) == {s[i] : i \in DOMAIN s}
\* sequences without repetition (user.attendedEvents holds unique ids)
UniqueSeqsUpTo(S, n) ==
  {s \in SeqsUpTo(S, n) : \A i, j \in DOMAIN s : s[i] = s[j] => i = j}

Point(lat, lng) == Obj([lat |-> lat, lng |-> lng])
User(attendedEvents, preferences, location) ==
  Obj([attendedEvents |-> attendedEvents, preferences |-> preferences,
       location |-> location])
Event(id, categories, location, popularity) ==
  Obj([id |-> id, categories |-> categories, location |-> location,
       popularity |-> popularity])
\* a similarity mapping with the entries of the function m
Similarity(m) == Obj(m)
NoEntries == [i \in {} |-> Undefined]

None == [threw |-> FALSE, value |-> Undefined]

InitRecommend(Users, EventArrays, Similarities, Limits) ==
  /\ user \in Users
  /\ events \in EventArrays
  /\ eventSimilarity \in Similarities
  /\ limit \in Limits
  /\ point1 = Undefined
  /\ point2 = Undefined
  /\ pc = [rec |-> "ready", dist |-> "idle"]
  /\ result = None
  /\ eventScores = <<>>
  /\ distance = None

ArraysUpTo(Events, n) == {Arr(s) : s \in SeqsUpTo(Events, n)}

\* ----------------------------------------------------------------- actions

CallGetRecommendedEvents ==
  /\ pc.rec = "ready"
  /\ LET out == getRecommendedEvents(user, events, eventSimilarity, limit)
     IN  /\ result' = out.ret
         /\ events' = out.events
         /\ eventScores' = out.eventScores
  /\ pc' = [pc EXCEPT !.rec = "done"]
  /\ UNCHANGED <<user, eventSimilarity, limit, point1, point2, distance>>

CallCalculateDistance ==
  /\ pc.dist = "ready"
  /\ distance' = calculateDistance(point1, point2)
  /\ pc' = [pc EXCEPT !.dist = "done"]
  /\ UNCHANGED <<user, events, eventSimilarity, limit, point1, point2, result,
                 eventScores>>

\* ------------------------------------------- calculateDistance on its own

Latitudes == {Undefined, Str("x"), NaN, Infinity, Num(-90), Num(0), Num(90)}
Longitudes == {Undefined, Str("x"), NaN, Infinity, Num(-90), Num(0), Num(90),
               Num(180)}
Points == {Point(lat, lng) : lat \in Latitudes, lng \in Longitudes}

InitDist ==
  /\ user = Undefined
  /\ events = Undefined
  /\ eventSimilarity = Undefined
  /\ limit = Undefined
  /\ point1 \in Points
  /\ point2 \in Points
  /\ pc = [rec |-> "idle", dist |-> "ready"]
  /\ result = None
  /\ eventScores = <<>>
  /\ distance = None

NextDist == CallCalculateDistance
SpecDist == InitDist /\ [][NextDist]_vars

\* ----------------------------------------------- ranking of shaped events

RankUsers ==
  {User(att, Arr(<<"music">>), Undefined) :
     att \in {Undefined, Arr(<<"e1">>), Arr(<<"e1", "e2">>)}}
RankEvents ==
  {Event(id, Arr(<<c>>), Undefined, pop) :
     id \in Ids, c \in Categories, pop \in {Undefined, Num(Unit)}}
RankSimilarities ==
  {Similarity(NoEntries),
   Similarity([i \in {"e1", "e2"} |->
                 IF i = "e1" THEN Arr(<<"e3">>) ELSE Arr(<<"e2", "e3">>)])}
RankLimits == {Undefined, Num(2)}

InitRank ==
  InitRecommend(RankUsers, ArraysUpTo(RankEvents, MaxEvents),
                RankSimilarities, RankLimits)
NextRank == CallGetRecommendedEvents
SpecRank == InitRank /\ [][NextRank]_vars

\* --------------------------------------------- the similarity factor alone

SimUsers ==
  {User(Arr(att), Undefined, Undefined) : att \in UniqueSeqsUpTo(Ids, MaxAttended)}
    \cup {User(Undefined, Undefined, Undefined)}
SimEvents == {Event(id, Undefined, Undefined, Undefined) : id \in {"e3", "e4"}}
SimEntries == {Arr(<<>>), Arr(<<"e3">>), Arr(<<"e4", "e3">>), Arr(<<"e4">>)}
SimSimilarities ==
  {Similarity(m) : m \in UNION {[D -> SimEntries] : D \in SUBSET Ids}}

InitSim ==
  InitRecommend(SimUsers, ArraysUpTo(SimEvents, MaxEventsSim),
                SimSimilarities, {Undefined})
NextSim == CallGetRecommendedEvents
SpecSim == InitSim /\ [][NextSim]_vars

\* ------------------------------------------------------ the limit argument

LimitUsers ==
  {User(att, Undefined, Undefined) : att \in {Undefined, Arr(<<>>), Arr(<<"e1">>)}}
LimitEvents ==
  {Event("e1", Undefined, Undefined, Undefined),
   Event("e2", Undefined, Undefined, Undefined),
   Event("e2", Undefined, Undefined, Num(Unit))}
Limits == {Undefined} \cup {Num(n) : n \in -2..MaxLimit}

InitLimit ==
  InitRecommend(LimitUsers,
                ArraysUpTo(LimitEvents, MaxEventsLimit) \cup {Undefined},
                {Similarity(NoEntries)}, Limits)
NextLimit == CallGetRecommendedEvents
SpecLimit == InitLimit /\ [][NextLimit]_vars

\* ------------------------------------------------- the four factors' values

ScoreLocations == {Undefined, Point(Num(0), Num(0)), Point(Num(0), Num(90))}
ScoreUsers ==
  {User(Arr(<<"e1">>), prefs, loc) :
     prefs \in {Undefined, Arr(<<>>), Arr(<<"music">>), Arr(<<"music", "sports">>)},
     loc \in ScoreLocations}
ScoreCategories ==
  {Undefined, Arr(<<>>), Arr(<<"music">>), Arr(<<"music", "sports">>),
   Arr(<<"music", "music">>), Arr(<<"music", "music", "music">>)}
ScoreEvents ==
  {Event("e2", cats, loc, pop) :
     cats \in ScoreCategories, loc \in ScoreLocations,
     pop \in {Undefined, Num(0), Num(Unit \div 2), Num(Unit)}}
ScoreSimilarities ==
  {Similarity(NoEntries), Similarity([i \in {"e1"} |-> Arr(<<"e2">>)])}

InitScore ==
  InitRecommend(ScoreUsers, ArraysUpTo(ScoreEvents, MaxEventsScore),
                ScoreSimilarities, {Undefined})
NextScore == CallGetRecommendedEvents
SpecScore == InitScore /\ [][NextScore]_vars

\* ------------------------- both functions, absent and misshapen arguments

ShapeUsers ==
  {Undefined, User(Undefined, Undefined, Undefined),
   User(Arr(<<"e1">>), Arr(<<"music">>), Undefined)}
ShapeEvents ==
  {Undefined,
   Event("e1", Undefined, Undefined, Undefined),
   Event("e2", Undefined, Undefined, Undefined),
   Event("e2", Arr(<<"music">>), Undefined, Undefined),
   Event("e2", Num(7), Undefined, Undefined)}
ShapeSimilarities ==
  {Undefined, Similarity(NoEntries),
   Similarity([i \in {"e1"} |-> Arr(<<"e2">>)]),
   Similarity([i \in {"e1"} |-> Num(1)])}
ShapePoints ==
  {Undefined, Point(Num(0), Num(0)), Point(Undefined, Num(90)),
   Obj([latitude |-> Num(0), longitude |-> Num(90)])}

Init ==
  /\ user \in ShapeUsers
  /\ events \in ArraysUpTo(ShapeEvents, MaxEventsShape) \cup {Undefined}
  /\ eventSimilarity \in ShapeSimilarities
  /\ limit = Undefined
  /\ point1 \in ShapePoints
  /\ point2 \in ShapePoints
  /\ pc = [rec |-> "ready", dist |-> "ready"]
  /\ result = None
  /\ eventScores = <<>>
  /\ distance = None

Next == CallGetRecommendedEvents \/ CallCalculateDistance
Spec == Init /\ [][Next]_vars

\* ------------------------------------------------------------------ claims

Returned == pc.rec = "done" /\ ~result.threw
\* the returned sequence, as positions in events
Ranked == result.value.a
AttendedIds ==
  LET att == Get(user, "attendedEvents")
  IN  IF att.t = "array" THEN Range(att.a) ELSE {}
EventCount == IF events.t = "array" THEN Len(events.a) ELSE 0
\* the positions of the events the user has not attended
Candidates == {i \in 1..EventCount : Get(events.a[i], "id") \notin AttendedIds}
\* the score the call computed for the event at position i
ScoreAt(i) ==
  (CHOOSE item \in Range(eventScores) : item.event = i).score.n

\* C1: the returned sequence holds no event whose id is in user.attendedEvents
C1_NoAttendedEventReturned ==
  Returned =>
    \A k \in DOMAIN Ranked : Get(events.a[Ranked[k]], "id") \notin AttendedIds

C1_Witness ==
  /\ Returned
  /\ Ranked # <<>>
  /\ \E i \in 1..EventCount : Get(events.a[i], "id") \in AttendedIds

\* C2: the returned sequence is in non-increasing order of score, and no
\* candidate left out scores higher than a returned event
C2_SortedByDescendingScore ==
  Returned =>
    /\ \A i \in Candidates : \E item \in Range(eventScores) : item.event = i
    /\ \A k \in 1..(Len(Ranked) - 1) : ScoreAt(Ranked[k]) >= ScoreAt(Ranked[k + 1])
    /\ \A c \in Candidates \ Range(Ranked) :
         \A r \in Range(Ranked) : ScoreAt(c) <= ScoreAt(r)

C2_Witness ==
  /\ Returned
  /\ Len(Ranked) = 2
  /\ Ranked[1] > Ranked[2]
  /\ ScoreAt(Ranked[1]) > ScoreAt(Ranked[2])
  /\ Candidates \ Range(Ranked) # {}

\* C3: with both locations present and numeric, the proximity subscore is
\* 0.20 * e^(-d/100) for d the distance between the user's and the event's
\* coordinates, and it is below 0.20 when d is not zero
C3_ProximityFromActualDistance ==
  Returned =>
    \A k \in DOMAIN eventScores :
      LET event == events.a[eventScores[k].event]
          userLoc == Get(user, "location")
          eventLoc == Get(event, "location")
      IN  (/\ userLoc.t = "object" /\ eventLoc.t = "object"
           /\ \A c \in {Get(userLoc, "lat"), Get(userLoc, "lng"),
                        Get(eventLoc, "lat"), Get(eventLoc, "lng")} : IsFinite(c))
          => LET d == calculateDistance(userLoc, eventLoc).value.n
                 subscore == eventScores[k].score.n
                               - SimilarityFactor(user, event, eventSimilarity).value.n
                               - PreferenceFactor(user, event).value.n
                               - PopularityFactor(event).value.n
             IN  /\ subscore = Times(MathExpNeg((d * Unit) \div 100), WEIGHAGE_3)
                 /\ d > 0 => subscore < WEIGHAGE_3

\* C4: for limit omitted (then 5) or a non-negative integer, the result holds
\* min(limit, number of events not attended) events
C4_LengthIsMinOfLimitAndCandidates ==
  (Returned /\ (limit.t = "undefined" \/ limit.n >= 0)) =>
    Len(Ranked) = Min(IF limit.t = "undefined" THEN 5 ELSE limit.n,
                      Cardinality(Candidates))

C4_Witness ==
  /\ Returned
  /\ limit.t = "undefined"
  /\ Cardinality(Candidates) > 5
  /\ Len(Ranked) = 5

\* C5: a negative limit returns the empty sequence
C5_NegativeLimitReturnsEmpty ==
  (Returned /\ limit.t = "number" /\ limit.n < 0) => Ranked = <<>>

\* C6: neither function ever raises an error
C6_NeverRaises ==
  /\ pc.rec = "done" => ~result.threw
  /\ pc.dist = "done" => ~distance.threw

\* C7: calculateDistance returns exactly 0 when a coordinate of either point
\* is not a finite number; it returns no NaN and does not raise
C7_NonFiniteCoordinateGivesZero ==
  pc.dist = "done" =>
    /\ ~distance.threw
    /\ distance.value.k # "NaN"
    /\ (\E c \in {Get(point1, "lat"), Get(point1, "lng"),
                  Get(point2, "lat"), Get(point2, "lng")} : ~IsFinite(c))
         => distance.value = Num(0)

\* C8: with attendedEvents non-empty the similarity subscore is
\* (similar / total) * 0.35 when total > 0 and 0 otherwise: total counts the
\* attended ids that have an entry in the mapping, similar those whose entry
\* lists the candidate's id
C8_SimilaritySubscore ==
  (Returned /\ AttendedIds # {}) =>
    \A k \in DOMAIN eventScores :
      LET event == events.a[eventScores[k].event]
          att == Get(user, "attendedEvents").a
          withEntry == {j \in DOMAIN att : att[j] \in DOMAIN eventSimilarity.f}
          total == Cardinality(withEntry)
          similar == Cardinality({j \in withEntry :
                        Get(event, "id") \in Range(eventSimilarity.f[att[j]].a)})
          subscore == eventScores[k].score.n
                        - PreferenceFactor(user, event).value.n
                        - ProximityFactor(user, event).value.n
                        - PopularityFactor(event).value.n
      IN  IF total > 0
          THEN subscore * total * 100 = similar * 35 * Unit
          ELSE subscore = 0

C8_Witness ==
  /\ Returned
  /\ \E id \in AttendedIds : id \notin DOMAIN eventSimilarity.f
  /\ \E k \in DOMAIN eventScores :
       /\ eventScores[k].score.n > 0
       /\ eventScores[k].score.n < WEIGHAGE_1

\* C9: with popularity absent or in [0,1] the total score lies in [0,1]
C9_ScoreWithinUnitInterval ==
  Returned =>
    \A k \in DOMAIN eventScores :
      LET popularity == Get(events.a[eventScores[k].event], "popularity")
      IN  (popularity.t = "undefined" \/ (popularity.n >= 0 /\ popularity.n <= Unit))
          => (eventScores[k].score.n >= 0 /\ eventScores[k].score.n <= Unit)

\* C10: the call leaves user, events, eventSimilarity and limit as they were,
\* and returns events of the input, each position at most once
C10_InputsUnchanged ==
  [][(pc.rec = "ready" /\ pc'.rec = "done") =>
       /\ events' = events
       /\ user' = user
       /\ eventSimilarity' = eventSimilarity
       /\ limit' = limit
       /\ ~result'.threw =>
            /\ \A k \in DOMAIN result'.value.a : result'.value.a[k] \in 1..EventCount
            /\ \A k, l \in DOMAIN result'.value.a :
                 result'.value.a[k] = result'.value.a[l] => k = l]_vars

C10_Witness ==
  /\ Returned
  /\ Len(Ranked) >= 2
  /\ Ranked[1] > Ranked[2]
  /\ \A i \in 1..EventCount : "score" \notin DOMAIN events.a[i].f

====
